---- MODULE Spec2Model ----
(***************************************************************************)
(* `ipfs name verify-record`: IpnsVerifyRecordCmd of                       *)
(* core/commands/name/name.go.                                             *)
(*                                                                         *)
(* A call reads the record file, unmarshals the protobuf entry, decodes    *)
(* the key argument to a peer ID, resolves a public key (from the peer ID, *)
(* else from the entry's PubKey field), validates the entry with           *)
(* ipns.Validate and emits it.  Each call is a process walking through the *)
(* statements of Run; the library calls Run makes (strings.TrimPrefix,     *)
(* proto.Unmarshal, peer.Decode, ID.ExtractPublicKey,                      *)
(* crypto.UnmarshalPublicKey, ipns.Validate, ipns.GetEOL) are operators    *)
(* that compute what those calls compute on the bounded value sets below.  *)
(***************************************************************************)
EXTENDS Integers, Sequences, FiniteSets, TLC

\* ------------------------------------------------------------------ bounds
MaxTime == 2    \* clock readings and EOL instants range over 0..MaxTime
MaxSeq == 1     \* sequence numbers range over 0..MaxSeq
MaxTtl == 1     \* ttl values range over 0..MaxTtl

Procs == {1, 2} \* verify-record calls

\* ------------------------------------------------------------- key material
Keys == {"ed1", "secp1", "rsa1", "rsa2"}
NoKey == "-"

KeyType(k) ==
    IF k = "ed1" THEN "Ed25519" ELSE IF k = "secp1" THEN "Secp256k1" ELSE "RSA"

\* Serialized public keys (entry.PubKey, identity multihash digests).
MarshalPublicKey(k) == [kind |-> "pk", k |-> k]
JunkKeyBytes == [kind |-> "junk", k |-> NoKey]
EmptyBytes == [kind |-> "empty", k |-> NoKey]
PubKeyBytes == {MarshalPublicKey(k) : k \in Keys} \cup {JunkKeyBytes, EmptyBytes}

\* ic.UnmarshalPublicKey: the key of well-formed bytes, an error otherwise.
UnmarshalPublicKey(bytes) ==
    IF bytes.kind = "pk"
    THEN [pub |-> bytes.k, err |-> "nil"]
    ELSE [pub |-> NoKey, err |-> "ErrBadKeyType"]

\* peer.IDFromPublicKey: keys short enough to be inlined give an identity
\* multihash of the key bytes, the others the sha2-256 of the key bytes.
IdentityID(bytes) == [code |-> "identity", kind |-> bytes.kind, k |-> bytes.k]
Sha256ID(k) == [code |-> "sha2-256", kind |-> "pk", k |-> k]
IDFromPublicKey(k) ==
    IF KeyType(k) \in {"Ed25519", "Secp256k1"}
    THEN IdentityID(MarshalPublicKey(k))
    ELSE Sha256ID(k)
ZeroID == [code |-> "", kind |-> "", k |-> NoKey]

PeerIDs ==
    {IDFromPublicKey(k) : k \in Keys} \cup {Sha256ID("ed1"), IdentityID(JunkKeyBytes)}

\* ID.ExtractPublicKey: only an identity multihash carries the key.
ExtractPublicKey(ident) ==
    IF ident.code = "identity"
    THEN UnmarshalPublicKey([kind |-> ident.kind, k |-> ident.k])
    ELSE [pub |-> NoKey, err |-> "ErrNoPublicKey"]

\* ---------------------------------------------------------------- key text
\* req.Arguments[0]: a number of leading "/ipns/" prefixes, then either the
\* text form of a peer ID or text that is no peer ID.
KeyText(n, wf, ident) == [prefixes |-> n, wellFormed |-> wf, id |-> ident]

\* strings.TrimPrefix(s, "/ipns/") removes one leading prefix, if any.
TrimPrefix(s) ==
    IF s.prefixes > 0 THEN [s EXCEPT !.prefixes = s.prefixes - 1] ELSE s

\* peer.Decode
Decode(s) ==
    IF s.prefixes = 0 /\ s.wellFormed
    THEN [id |-> s.id, err |-> "nil"]
    ELSE [id |-> ZeroID, err |-> "ErrPeerDecode"]

\* -------------------------------------------------------------- the record
Values == {"target-A", "target-B", "huge"}
\* ipns.MaxRecordSize: only the value "huge" makes an entry exceed it.
ExceedsMaxRecordSize(e) == e.value = "huge" \/ e.data.Value = "huge"

\* validity bytes: RFC3339Nano text of an instant (in half seconds), or junk.
Validity(t) == [wf |-> TRUE, t |-> t]
JunkValidity == [wf |-> FALSE, t |-> 0]
Validities == {Validity(t) : t \in 0..MaxTime} \cup {JunkValidity}

\* optional uint64 protobuf field (a Go *uint64)
Some(n) == [set |-> TRUE, v |-> n]
None == [set |-> FALSE, v |-> 0]
Get(o) == IF o.set THEN o.v ELSE 0

\* entry.Data: the DAG-CBOR document the V2 signature covers.
Data(value, validityType, validity, sequence, ttl) ==
    [present |-> TRUE, Value |-> value, ValidityType |-> validityType,
     Validity |-> validity, Sequence |-> sequence, TTL |-> ttl]
NoData ==
    [present |-> FALSE, Value |-> "", ValidityType |-> "", Validity |-> JunkValidity,
     Sequence |-> 0, TTL |-> 0]

\* signatures: who signed which bytes
Sign(k, data) == [signer |-> k, over |-> data]
NoSignature == [signer |-> NoKey, over |-> NoData]
\* PubKey.Verify(data, sig)
Verify(pk, data, sig) == sig.signer = pk /\ sig.over = data

ZeroEntry ==
    [value |-> "", validityType |-> "EOL", validity |-> JunkValidity, sequence |-> None,
     ttl |-> None, signatureV2 |-> NoSignature, pubKey |-> EmptyBytes, data |-> NoData]

\* ipns.Create + ipns.EmbedPublicKey: what a publisher holding k produces.
Create(k, value, validity, sequence, ttl, pubKey) ==
    LET data == Data(value, "EOL", validity, sequence, Get(ttl)) IN
    [value |-> value, validityType |-> "EOL", validity |-> validity,
     sequence |-> Some(sequence), ttl |-> ttl, signatureV2 |-> Sign(k, data),
     pubKey |-> pubKey, data |-> data]

\* ------------------------------------------------------- ipns.Validate, GetEOL
\* validateCborDataMatchesPbData without the comparison of the ttl.
validateCborDataMatchesPbData_NoTtl(e) ==
    IF ~e.data.present THEN "ErrDataMissing"
    ELSE IF e.data.Value # e.value
              \/ e.data.Validity # e.validity
              \/ e.data.ValidityType # e.validityType
              \/ e.data.Sequence # Get(e.sequence)
         THEN "ErrCborPbMismatch"
         ELSE "nil"

\* validateCborDataMatchesPbData: the protobuf fields, read through their
\* getters (an unset optional reads as 0), must equal the signed document's.
validateCborDataMatchesPbData(e) ==
    IF ~e.data.present THEN "ErrDataMissing"
    ELSE IF e.data.Value # e.value
              \/ e.data.Validity # e.validity
              \/ e.data.ValidityType # e.validityType
              \/ e.data.Sequence # Get(e.sequence)
              \/ e.data.TTL # Get(e.ttl)
         THEN "ErrCborPbMismatch"
         ELSE "nil"

\* ipns.Validate up to the EOL check: record size, presence of signatureV2,
\* the signature over entry.Data, agreement of entry.Data with the fields.
ValidateSignature(pk, e) ==
    IF ExceedsMaxRecordSize(e) THEN "ErrRecordSize"
    ELSE IF e.signatureV2 = NoSignature THEN "ErrSignature"
    ELSE IF ~Verify(pk, e.data, e.signatureV2) THEN "ErrSignature"
    ELSE validateCborDataMatchesPbData(e)

\* ipns.GetEOL: the validity type must be EOL and the validity must parse.
GetEOL(e) ==
    IF e.validityType # "EOL" THEN [eol |-> 0, err |-> "ErrUnrecognizedValidity"]
    ELSE IF ~e.validity.wf THEN [eol |-> 0, err |-> "ErrParseTime"]
    ELSE [eol |-> e.validity.t, err |-> "nil"]

\* The EOL check refusing a record at the very instant of its EOL.
ValidateEOL_NotBefore(e, t) ==
    LET r == GetEOL(e) IN
    IF r.err # "nil" THEN r.err
    ELSE IF t >= r.eol THEN "ErrExpiredRecord"
    ELSE "nil"

\* The EOL check with GetEOL's error not looked at.
ValidateEOL_ErrorIgnored(e, t) ==
    IF t > GetEOL(e).eol THEN "ErrExpiredRecord" ELSE "nil"

\* The rest of ipns.Validate: GetEOL, then time.Now().After(eol).
ValidateEOL(e, t) ==
    LET r == GetEOL(e) IN
    IF r.err # "nil" THEN r.err
    ELSE IF t > r.eol THEN "ErrExpiredRecord"
    ELSE "nil"

\* --------------------------------------------------------- key resolution
\* Key resolution that looks at the entry's PubKey first.
ResolveKey_RecordFirst(ident, e) ==
    IF e.pubKey.kind # "empty"
    THEN UnmarshalPublicKey(e.pubKey)
    ELSE ExtractPublicKey(ident)

\* Key resolution that drops the error of ExtractPublicKey when the entry
\* has no PubKey.
ResolveKey_ErrorDropped(ident, e) ==
    LET r == ExtractPublicKey(ident) IN
    IF r.err # "nil"
    THEN IF e.pubKey.kind # "empty"
         THEN UnmarshalPublicKey(e.pubKey)
         ELSE [pub |-> NoKey, err |-> "nil"]
    ELSE r

\* Run, lines 117-124: the key of the peer ID; if that fails and the entry
\* has a PubKey, the entry's key instead.
ResolveKey(ident, e) ==
    LET r == ExtractPublicKey(ident) IN
    IF r.err # "nil" /\ e.pubKey.kind # "empty"
    THEN UnmarshalPublicKey(e.pubKey)
    ELSE r

\* ------------------------------------------------------------ text encoder
Line(label, str, num) == [label |-> label, str |-> str, num |-> num]
\* time.Format(time.RFC3339): whole seconds (an instant is in half seconds).
FormatRFC3339(t) == t \div 2

TextEncoder(out) ==
    LET eol == GetEOL(out) IN
    <<Line("Record is valid:", "", 0), Line("Value:", out.value, 0)>>
        \o (IF out.ttl.set THEN <<Line("TTL:", "", out.ttl.v)>> ELSE <<>>)
        \o (IF eol.err = "nil"
            THEN <<Line("Validity:", "", FormatRFC3339(eol.eol))>>
            ELSE <<>>)

\* ------------------------------------------------------------------ inputs
\* The record file: absent, unreadable, or bytes that are either no protobuf
\* message or the encoding of an entry.
File(state, wf, e) == [state |-> state, wellFormed |-> wf, entry |-> e]
NoFile == File("none", FALSE, ZeroEntry)
UnreadableFile == File("unreadable", FALSE, ZeroEntry)
MalformedFile == File("ok", FALSE, ZeroEntry)
RecordFile(e) == File("ok", TRUE, e)

OptTtls == {None} \cup {Some(n) : n \in 0..MaxTtl}
OptSeqs == {None} \cup {Some(n) : n \in 0..MaxSeq}

\* Entries as publishers make them.
CreatedEntries ==
    {Create(k, "target-A", v, n, t, pk) :
        k \in Keys, v \in Validities, n \in {0, MaxSeq}, t \in OptTtls, pk \in PubKeyBytes}

\* An entry and every entry that differs from it in one field, the
\* signature left as it was.
Tampered(e) ==
    {e}
    \cup {[e EXCEPT !.value = x] : x \in Values}
    \cup {[e EXCEPT !.validity = x] : x \in Validities}
    \cup {[e EXCEPT !.validityType = x] : x \in {"EOL", "other"}}
    \cup {[e EXCEPT !.sequence = x] : x \in OptSeqs}
    \cup {[e EXCEPT !.ttl = x] : x \in OptTtls}
    \cup {[e EXCEPT !.data.Value = x] : x \in Values}
    \cup {[e EXCEPT !.data.Validity = x] : x \in Validities}
    \cup {[e EXCEPT !.data.ValidityType = x] : x \in {"EOL", "other"}}
    \cup {[e EXCEPT !.data.Sequence = x] : x \in 0..MaxSeq}
    \cup {[e EXCEPT !.data.TTL = x] : x \in 0..MaxTtl}
    \cup {[e EXCEPT !.data = NoData], [e EXCEPT !.signatureV2 = NoSignature]}

Entries == UNION {Tampered(e) : e \in CreatedEntries}

KeyTexts ==
    {KeyText(0, TRUE, i) : i \in PeerIDs}
        \cup {KeyText(1, TRUE, IDFromPublicKey(k)) : k \in {"ed1", "rsa1"}}
        \cup {KeyText(2, TRUE, IDFromPublicKey("ed1")), KeyText(0, FALSE, ZeroID)}

Request(k, f) == [Arguments |-> k, Files |-> f]
Requests ==
    {Request(k, RecordFile(e)) : k \in KeyTexts, e \in Entries}
        \cup {Request(KeyText(0, TRUE, IDFromPublicKey("ed1")), f) :
                f \in {NoFile, UnreadableFile, MalformedFile}}

\* ------------------------------------------------------------------- state
VARIABLES
    req,        \* req[p]: the call's arguments and file
    pc,         \* pc[p]: the statement of Run the call is at
    key,        \* Run's locals ...
    fileOpen,   \* file is open (until the deferred file.Close())
    b,
    entry,
    id,
    pub,
    err,        \* the error Run returned ("nil": none)
    res,        \* what the call emitted through res
    stdout,     \* the text encoder's output for what was emitted
    now,        \* the latest reading of the clock
    clockRead   \* clockRead[p]: what time.Now() gave the call's ipns.Validate

vars == <<req, pc, key, fileOpen, b, entry, id, pub, err, res, stdout, now, clockRead>>

NotRead == MaxTime + 1
ZeroKey == KeyText(0, FALSE, ZeroID)
ZeroBytes == File("ok", FALSE, ZeroEntry)

\* One call; the second process is not used.
Init ==
    /\ \E r \in Requests :
          req = [p \in Procs |-> IF p = 1 THEN r ELSE Request(ZeroKey, NoFile)]
    /\ pc = [p \in Procs |-> IF p = 1 THEN "Start" ELSE "Unused"]
    /\ key = [p \in Procs |-> ZeroKey]
    /\ fileOpen = [p \in Procs |-> FALSE]
    /\ b = [p \in Procs |-> ZeroBytes]
    /\ entry = [p \in Procs |-> ZeroEntry]
    /\ id = [p \in Procs |-> ZeroID]
    /\ pub = [p \in Procs |-> NoKey]
    /\ err = [p \in Procs |-> "nil"]
    /\ res = [p \in Procs |-> <<>>]
    /\ stdout = [p \in Procs |-> <<>>]
    /\ now = 0
    /\ clockRead = [p \in Procs |-> NotRead]

\* ---------------------------------------------------------------- Run
\* `return e` (with the deferred file.Close() once the file is open).
Return(p, e) ==
    /\ pc' = [pc EXCEPT ![p] = "Done"]
    /\ err' = [err EXCEPT ![p] = e]
    /\ fileOpen' = [fileOpen EXCEPT ![p] = FALSE]

Goto(p, label) ==
    /\ pc' = [pc EXCEPT ![p] = label]
    /\ UNCHANGED err

\* lines 91-97: key := TrimPrefix(...); file, err := GetFileArg(...)
GetFileArg(p) ==
    /\ pc[p] = "Start"
    /\ key' = [key EXCEPT ![p] = TrimPrefix(req[p].Arguments)]
    /\ IF req[p].Files.state = "none"
       THEN Return(p, "ErrNoFile")
       ELSE /\ Goto(p, "Copy")
            /\ fileOpen' = [fileOpen EXCEPT ![p] = TRUE]
    /\ UNCHANGED <<req, b, entry, id, pub, res, stdout, now, clockRead>>

\* lines 99-104: io.Copy(&b, file)
Copy(p) ==
    /\ pc[p] = "Copy"
    /\ IF req[p].Files.state = "unreadable"
       THEN Return(p, "ErrRead") /\ UNCHANGED b
       ELSE /\ Goto(p, "Unmarshal")
            /\ b' = [b EXCEPT ![p] = req[p].Files]
            /\ UNCHANGED fileOpen
    /\ UNCHANGED <<req, key, entry, id, pub, res, stdout, now, clockRead>>

\* lines 106-110: proto.Unmarshal(b.Bytes(), &entry)
Unmarshal(p) ==
    /\ pc[p] = "Unmarshal"
    /\ IF ~b[p].wellFormed
       THEN Return(p, "ErrUnmarshal") /\ UNCHANGED entry
       ELSE /\ Goto(p, "Decode")
            /\ entry' = [entry EXCEPT ![p] = b[p].entry]
            /\ UNCHANGED fileOpen
    /\ UNCHANGED <<req, key, b, id, pub, res, stdout, now, clockRead>>

\* lines 112-115: id, err := peer.Decode(key)
PeerDecode(p) ==
    /\ pc[p] = "Decode"
    /\ LET r == Decode(key[p]) IN
       /\ id' = [id EXCEPT ![p] = r.id]
       /\ IF r.err # "nil"
          THEN Return(p, r.err)
          ELSE Goto(p, "ExtractPublicKey") /\ UNCHANGED fileOpen
    /\ UNCHANGED <<req, key, b, entry, pub, res, stdout, now, clockRead>>

\* Key resolution without the `return err` of lines 125-127.
KeyResolve_NoReturn(p) ==
    /\ pc[p] = "ExtractPublicKey"
    /\ LET r == ResolveKey(id[p], entry[p]) IN
       /\ pub' = [pub EXCEPT ![p] = r.pub]
       /\ pc' = [pc EXCEPT ![p] = "Validate"]
       /\ err' = [err EXCEPT ![p] = r.err]
    /\ UNCHANGED <<req, key, fileOpen, b, entry, id, res, stdout, now, clockRead>>

\* lines 117-127: pub, err := id.ExtractPublicKey(), with the fallback to
\* entry.PubKey
KeyResolve(p) ==
    /\ pc[p] = "ExtractPublicKey"
    /\ LET r == ResolveKey(id[p], entry[p]) IN
       /\ pub' = [pub EXCEPT ![p] = r.pub]
       /\ IF r.err # "nil"
          THEN Return(p, r.err)
          ELSE Goto(p, "Validate") /\ UNCHANGED fileOpen
    /\ UNCHANGED <<req, key, b, entry, id, res, stdout, now, clockRead>>

\* Validation without the `return err` of lines 130-132.
ValidateSig_NoReturn(p) ==
    /\ pc[p] = "Validate"
    /\ pc' = [pc EXCEPT ![p] = "GetEOL"]
    /\ err' = [err EXCEPT ![p] = ValidateSignature(pub[p], entry[p])]
    /\ UNCHANGED <<req, key, fileOpen, b, entry, id, pub, res, stdout, now, clockRead>>

\* lines 129-132, first part of ipns.Validate(pub, &entry): the signature
ValidateSig(p) ==
    /\ pc[p] = "Validate"
    /\ LET e == ValidateSignature(pub[p], entry[p]) IN
       IF e # "nil"
       THEN Return(p, e)
       ELSE Goto(p, "GetEOL") /\ UNCHANGED fileOpen
    /\ UNCHANGED <<req, key, b, entry, id, pub, res, stdout, now, clockRead>>

\* The EOL check reading an entry shared by all calls (the one unmarshalled
\* last) instead of the call's own.
ValidateExpiry_SharedEntry(p) ==
    /\ pc[p] = "GetEOL"
    /\ \E t \in now..MaxTime, q \in Procs :
          /\ pc[q] \notin {"Start", "Copy", "Unmarshal", "Unused"}
          /\ now' = t
          /\ clockRead' = [clockRead EXCEPT ![p] = t]
          /\ LET e == ValidateEOL(entry[q], t) IN
             IF e # "nil"
             THEN Return(p, e)
             ELSE Goto(p, "EmitOnce") /\ UNCHANGED fileOpen
    /\ UNCHANGED <<req, key, b, entry, id, pub, res, stdout>>

\* lines 129-132, second part of ipns.Validate: the EOL against time.Now()
ValidateExpiry(p) ==
    /\ pc[p] = "GetEOL"
    /\ \E t \in now..MaxTime :
          /\ now' = t
          /\ clockRead' = [clockRead EXCEPT ![p] = t]
          /\ LET e == ValidateEOL(entry[p], t) IN
             IF e # "nil"
             THEN Return(p, e)
             ELSE Goto(p, "EmitOnce") /\ UNCHANGED fileOpen
    /\ UNCHANGED <<req, key, b, entry, id, pub, res, stdout>>

\* line 134 and the text encoder, lines 138-154
EmitOnce(p) ==
    /\ pc[p] = "EmitOnce"
    /\ res' = [res EXCEPT ![p] = <<entry[p]>>]
    /\ stdout' = [stdout EXCEPT ![p] = TextEncoder(entry[p])]
    /\ Return(p, "nil")
    /\ UNCHANGED <<req, key, b, entry, id, pub, now, clockRead>>

Step(p) ==
    \/ GetFileArg(p)
    \/ Copy(p)
    \/ Unmarshal(p)
    \/ PeerDecode(p)
    \/ KeyResolve(p)
    \/ ValidateSig(p)
    \/ ValidateExpiry(p)
    \/ EmitOnce(p)

Next == \E p \in Procs : Step(p)

Spec == Init /\ [][Next]_vars

\* Two concurrent calls, on fewer requests.
ConcEntries ==
    {Create(k, "target-A", Validity(t), 0, None, pk) :
        k \in {"ed1", "rsa1"}, t \in {0, MaxTime},
        pk \in {EmptyBytes, MarshalPublicKey("rsa1"), MarshalPublicKey("rsa2")}}
ConcRequests ==
    {Request(k, RecordFile(e)) :
        k \in {KeyText(0, TRUE, IDFromPublicKey("ed1")),
               KeyText(1, TRUE, IDFromPublicKey("rsa1")),
               KeyText(2, TRUE, IDFromPublicKey("rsa1"))},
        e \in ConcEntries}
        \cup {Request(KeyText(0, TRUE, IDFromPublicKey("ed1")), f) :
                f \in {UnreadableFile, MalformedFile}}

InitConc ==
    /\ req \in [Procs -> ConcRequests]
    /\ pc = [p \in Procs |-> "Start"]
    /\ key = [p \in Procs |-> ZeroKey]
    /\ fileOpen = [p \in Procs |-> FALSE]
    /\ b = [p \in Procs |-> ZeroBytes]
    /\ entry = [p \in Procs |-> ZeroEntry]
    /\ id = [p \in Procs |-> ZeroID]
    /\ pub = [p \in Procs |-> NoKey]
    /\ err = [p \in Procs |-> "nil"]
    /\ res = [p \in Procs |-> <<>>]
    /\ stdout = [p \in Procs |-> <<>>]
    /\ now = 0
    /\ clockRead = [p \in Procs |-> NotRead]

ConcSpec == InitConc /\ [][Next]_vars

\* Two concurrent calls on requests that end in every stage.
FairRequests ==
    {Request(k, RecordFile(e)) :
        k \in {KeyText(1, TRUE, IDFromPublicKey("ed1")),
               KeyText(0, TRUE, IDFromPublicKey("rsa1"))},
        e \in {Create("rsa1", "target-A", Validity(MaxTime), 0, Some(MaxTtl), pk) :
                 pk \in {EmptyBytes, MarshalPublicKey("rsa1")}}
               \cup {Create("ed1", "target-A", v, 0, None, EmptyBytes) :
                       v \in {Validity(0), JunkValidity}}}
        \cup {Request(KeyText(2, TRUE, IDFromPublicKey("ed1")),
                      RecordFile(Create("ed1", "target-A", Validity(0), 0, None, EmptyBytes)))}
        \cup {Request(KeyText(0, TRUE, IDFromPublicKey("ed1")), f) :
                f \in {NoFile, UnreadableFile, MalformedFile}}

InitFair ==
    /\ req \in [Procs -> FairRequests]
    /\ pc = [p \in Procs |-> "Start"]
    /\ key = [p \in Procs |-> ZeroKey]
    /\ fileOpen = [p \in Procs |-> FALSE]
    /\ b = [p \in Procs |-> ZeroBytes]
    /\ entry = [p \in Procs |-> ZeroEntry]
    /\ id = [p \in Procs |-> ZeroID]
    /\ pub = [p \in Procs |-> NoKey]
    /\ err = [p \in Procs |-> "nil"]
    /\ res = [p \in Procs |-> <<>>]
    /\ stdout = [p \in Procs |-> <<>>]
    /\ now = 0
    /\ clockRead = [p \in Procs |-> NotRead]

\* Run is straight-line code run to completion by its goroutine: a call that
\* can take a step eventually takes one.
FairSpec == InitFair /\ [][Next]_vars /\ \A p \in Procs : WF_vars(Step(p))

\* ================================================================ properties
Done(p) == pc[p] = "Done"
Emitted(p) == res[p] # <<>>
\* the entry of the record file, once unmarshalled
Loaded(p) == req[p].Files.state = "ok" /\ req[p].Files.wellFormed /\ entry[p] = req[p].Files.entry
\* the key argument decoded to a peer ID and key resolution has run
PastKeyResolve(p) ==
    /\ Loaded(p)
    /\ Decode(TrimPrefix(req[p].Arguments)).err = "nil"
    /\ pc[p] \in {"Validate", "GetEOL", "EmitOnce", "Done"}
SelfDescribing(ident) == ExtractPublicKey(ident).err = "nil"
\* hash(k) is the identity: the peer ID names k, inlined or by its sha2-256
KeyMatchesID(k, ident) == ident \in {IDFromPublicKey(k), Sha256ID(k)}

\* the error kinds of the stages
DecodeErrors == {"ErrNoFile", "ErrRead", "ErrUnmarshal"}
IdentityDecodeErrors == {"ErrPeerDecode"}
KeyResolutionErrors == {"ErrNoPublicKey", "ErrBadKeyType"}
\* what the signature part of ipns.Validate returns: the signature does not
\* verify, or the fields shown are not the signed ones
SignatureErrors == {"ErrSignature", "ErrCborPbMismatch", "ErrDataMissing"}
ValidityErrors == {"ErrUnrecognizedValidity", "ErrParseTime", "ErrExpiredRecord"}

\* C1: for an identity that cannot self-describe its key and a record whose
\* embedded publicKey hashes to another identity, the call fails with a
\* key-resolution error and emits nothing, whatever the signature.
C1_KeyMismatchIsKeyResolutionError ==
    \A p \in Procs :
        (/\ Done(p) /\ PastKeyResolve(p)
         /\ ~SelfDescribing(id[p])
         /\ entry[p].pubKey.kind = "pk"
         /\ ~KeyMatchesID(entry[p].pubKey.k, id[p]))
        => (err[p] \in KeyResolutionErrors /\ ~Emitted(p))

\* C3: whenever a record was emitted and it carries a publicKey, the hash of
\* that publicKey is the identity that was given.
C3_EmittedPublicKeyMatchesIdentity ==
    \A p \in Procs :
        (Emitted(p) /\ res[p][1].pubKey.kind # "empty")
        => (res[p][1].pubKey.kind = "pk" /\ KeyMatchesID(res[p][1].pubKey.k, id[p]))

\* C7: when the identity cannot self-describe its key and the record has no
\* publicKey, the call fails with a key-resolution error and emits nothing;
\* validation is never entered without a resolved public key.
C7_NoKeySourceFails ==
    \A p \in Procs :
        /\ (/\ Done(p) /\ PastKeyResolve(p)
            /\ ~SelfDescribing(id[p])
            /\ entry[p].pubKey.kind = "empty")
           => (err[p] \in KeyResolutionErrors /\ ~Emitted(p) /\ clockRead[p] = NotRead)
        /\ pc[p] \in {"Validate", "GetEOL", "EmitOnce"} => pub[p] # NoKey

C7_Witness ==
    \E p \in Procs :
        /\ Done(p) /\ PastKeyResolve(p) /\ ~SelfDescribing(id[p])
        /\ entry[p].pubKey.kind = "empty"
        /\ entry[p].signatureV2.signer \in Keys
        /\ err[p] = "ErrNoPublicKey"

\* the key argument decoded and a public key was resolved
KeyResolved(p) == PastKeyResolve(p) /\ pub[p] # NoKey

\* e is what a holder of k's private key signed (current scheme, EOL): the
\* signature is k's over e's document and the document holds e's fields
SignedBy(e, k) ==
    /\ e.signatureV2 = Sign(k, e.data)
    /\ e.data = Data(e.value, "EOL", e.validity, Get(e.sequence), Get(e.ttl))
    /\ e.validityType = "EOL"

\* a signed record of ordinary size with a timestamp as validity, verified
\* against an identity derived from the signer's public key
MatchingCall(p) ==
    /\ Done(p) /\ Loaded(p)
    /\ Decode(TrimPrefix(req[p].Arguments)).err = "nil"
    /\ entry[p].validity.wf /\ ~ExceedsMaxRecordSize(entry[p])
    /\ \E k \in Keys :
          /\ SignedBy(entry[p], k)
          /\ KeyMatchesID(k, Decode(TrimPrefix(req[p].Arguments)).id)
          /\ \/ SelfDescribing(Decode(TrimPrefix(req[p].Arguments)).id)
             \/ entry[p].pubKey = MarshalPublicKey(k)

\* the text of a valid record: value, ttl if the record has one, EOL
ExpectedText(e) ==
    <<Line("Record is valid:", "", 0), Line("Value:", e.value, 0)>>
        \o (IF e.ttl.set THEN <<Line("TTL:", "", e.ttl.v)>> ELSE <<>>)
        \o <<Line("Validity:", "", e.validity.t \div 2)>>

Succeeded(p) ==
    /\ err[p] = "nil"
    /\ res[p] = <<req[p].Files.entry>>
    /\ stdout[p] = ExpectedText(req[p].Files.entry)

TamperedAfterSigning(e) ==
    LET d == e.signatureV2.over IN
    /\ e.signatureV2.signer \in Keys /\ d.present
    /\ \/ <<e.value, e.validity, Get(e.sequence), Get(e.ttl)>>
             # <<d.Value, d.Validity, d.Sequence, d.TTL>>
       \/ <<e.data.Value, e.data.Validity, e.data.Sequence, e.data.TTL>>
             # <<d.Value, d.Validity, d.Sequence, d.TTL>>

C6_OutputOnlyOnSuccess ==
    \A p \in Procs :
        /\ Emitted(p) =>
              /\ Done(p) /\ err[p] = "nil"
              /\ KeyResolved(p)
              /\ ValidateSignature(pub[p], entry[p]) = "nil"
              /\ GetEOL(entry[p]).err = "nil" /\ clockRead[p] <= GetEOL(entry[p]).eol
              /\ res[p] = <<req[p].Files.entry>>
              /\ stdout[p] = ExpectedText(req[p].Files.entry)
        /\ ~Emitted(p) => stdout[p] = <<>>
        /\ Done(p) => (err[p] = "nil" <=> Emitted(p))

C6_Witness ==
    \E p \in Procs :
        /\ Done(p) /\ Emitted(p) /\ err[p] = "nil" /\ Len(stdout[p]) = 4
        /\ ~fileOpen[p]

\* C8: a record whose validity is no well-formed timestamp is never emitted,
\* and when its signature is valid the call fails with a validity error;
\* the text of an emitted record always has its validity line.
C8_MalformedValidityRejected ==
    \A p \in Procs :
        /\ (Loaded(p) /\ ~entry[p].validity.wf) =>
              /\ ~Emitted(p)
              /\ (Done(p) /\ KeyResolved(p) /\ ValidateSignature(pub[p], entry[p]) = "nil")
                    => err[p] \in ValidityErrors
        /\ Emitted(p) => \E i \in 1..Len(stdout[p]) : stdout[p][i].label = "Validity:"

C8_Witness ==
    \E p \in Procs :
        /\ Done(p) /\ Loaded(p) /\ ~entry[p].validity.wf
        /\ KeyResolved(p) /\ Verify(pub[p], entry[p].data, entry[p].signatureV2)
        /\ err[p] = "ErrParseTime"

\* ---------------------------------------------------- concurrent calls
\* The outcome of a call run alone on request r, its validation reading the
\* clock as t: the error returned, what was emitted, the text written.
Outcome(e, out, text) == [err |-> e, res |-> out, stdout |-> text]
Failure(e) == Outcome(e, <<>>, <<>>)
RunAlone(r, t) ==
    LET ident == Decode(TrimPrefix(r.Arguments))
        k == ResolveKey(ident.id, r.Files.entry)
    IN  IF r.Files.state = "none" THEN Failure("ErrNoFile")
        ELSE IF r.Files.state = "unreadable" THEN Failure("ErrRead")
        ELSE IF ~r.Files.wellFormed THEN Failure("ErrUnmarshal")
        ELSE IF ident.err # "nil" THEN Failure(ident.err)
        ELSE IF k.err # "nil" THEN Failure(k.err)
        ELSE IF ValidateSignature(k.pub, r.Files.entry) # "nil"
             THEN Failure(ValidateSignature(k.pub, r.Files.entry))
        ELSE IF ValidateEOL(r.Files.entry, t) # "nil"
             THEN Failure(ValidateEOL(r.Files.entry, t))
        ELSE Outcome("nil", <<r.Files.entry>>, TextEncoder(r.Files.entry))

OutcomeOf(p) == Outcome(err[p], res[p], stdout[p])

\* the two calls were not validated at different clock readings
SameClock(p, q) ==
    clockRead[p] = NotRead \/ clockRead[q] = NotRead \/ clockRead[p] = clockRead[q]

NextStatement ==
    [Start |-> "Copy", Copy |-> "Unmarshal", Unmarshal |-> "Decode",
     Decode |-> "ExtractPublicKey", ExtractPublicKey |-> "Validate",
     Validate |-> "GetEOL", GetEOL |-> "EmitOnce", EmitOnce |-> "Done"]

\* the errors with which each stage ends a call
StageErrors(label) ==
    IF label \in {"Start", "Copy", "Unmarshal"} THEN DecodeErrors
    ELSE IF label = "Decode" THEN IdentityDecodeErrors
    ELSE IF label = "ExtractPublicKey" THEN KeyResolutionErrors
    ELSE IF label = "Validate" THEN SignatureErrors \cup {"ErrRecordSize"}
    ELSE IF label = "GetEOL" THEN ValidityErrors
    ELSE {}

\* a step of call p enters the next stage with no error and no output, or
\* ends the call: verified with its output, or failed with the stage's error
PipelineStep(p) ==
    pc'[p] # pc[p] =>
        /\ pc[p] \in DOMAIN NextStatement
        /\ \/ /\ pc'[p] = NextStatement[pc[p]] /\ pc'[p] # "Done"
              /\ err'[p] = "nil" /\ res'[p] = <<>>
           \/ /\ pc[p] = "EmitOnce" /\ pc'[p] = "Done"
              /\ err'[p] = "nil" /\ res'[p] # <<>>
           \/ /\ pc'[p] = "Done"
              /\ err'[p] \in StageErrors(pc[p]) /\ res'[p] = <<>>

\* nothing happens to a call that has ended
Terminal(p) ==
    pc[p] = "Done" =>
        /\ pc'[p] = "Done" /\ err'[p] = err[p] /\ res'[p] = res[p]
        /\ stdout'[p] = stdout[p] /\ pub'[p] = pub[p] /\ entry'[p] = entry[p]

\* C9: the stages are entered in order, each only after the ones before it
\* succeeded; the first failing stage ends the call with its error; nothing
\* is retried or undone after the end; every call ends.
C9_LinearPipeline ==
    /\ [][\A p \in Procs : PipelineStep(p) /\ Terminal(p)]_vars
    /\ \A p \in Procs : <>[](pc[p] = "Done")

C9_Witness ==
    \E p \in Procs, q \in Procs :
        /\ Done(p) /\ err[p] = "nil" /\ Emitted(p)
        /\ Done(q) /\ err[q] \in KeyResolutionErrors /\ ~Emitted(q)

====
